---- MODULE Spec2Model ----
(***************************************************************************)
(* Model of the musicserver1 capture -> variation -> synthesis pipeline.   *)
(*   Spec      : the AI thread of src/ai_variation.rs (PlayerRecorder,     *)
(*               Performer, the acceptance gate) with the device producer  *)
(*               and the control surface as its environment.               *)
(*   SynthSpec : the per-voice generator of src/synth_sounds.rs (adsr_tri) *)
(*               polled by the audio callback, with the control thread     *)
(*               that inserts and releases envelopes in notes_in_use.      *)
(* Time is a discrete clock `now`; every Instant::now()/elapsed() read     *)
(* made inside one handler sees the same value of the clock.               *)
(***************************************************************************)
EXTENDS Integers, Sequences, FiniteSets, TLC

\* ---------------------------------------------------------------- bounds
MaxTime == 3
MaxMsgs == 2
MaxUiOps == 1
MaxVoices == 2
MaxRaw == 4

\* ------------------------------------------------------------ MIDI values
NoteOn(p, v) == [kind |-> "NoteOn", note |-> p, velocity |-> v]
NoteOff(p, v) == [kind |-> "NoteOff", note |-> p, velocity |-> v]
ControlChange == [kind |-> "ControlChange", note |-> 0, velocity |-> 0]
TimingClock == [kind |-> "TimingClock", note |-> 0, velocity |-> 0]

\* the messages the device callback may deliver
DeviceMsgs ==
    { NoteOn(60, 100), NoteOn(62, 100), NoteOff(60, 0), NoteOff(60, 100),
      ControlChange, TimingClock }

\* values the control surface may store in replay_delay_slider
Delays == {1, 2}

IsChannelVoice(msg) == msg.kind \in {"NoteOn", "NoteOff", "ControlChange"}
IsNoteMsg(msg) == IsChannelVoice(msg) /\ msg.kind \in {"NoteOn", "NoteOff"}

\* ------------------------------------------------- Melody and PendingNote
Note(p, v, d) == [pitch |-> p, velocity |-> v, duration |-> d]

PendingNote_new(p, v, t) == [pitch |-> p, velocity |-> v, timestamp |-> t]
PendingNote_is_rest(pn) == pn.velocity = 0
PendingNote_elapsed(pn, t) == t - pn.timestamp
PendingNote_into(pn, t) == Note(pn.pitch, pn.velocity, PendingNote_elapsed(pn, t))

Note_is_rest(n) == n.velocity = 0

RECURSIVE Melody_duration(_)
Melody_duration(m) ==
    IF m = <<>> THEN 0 ELSE Head(m).duration + Melody_duration(Tail(m))

Melody_num_pitch_changes(m) ==
    Cardinality({i \in 2..Len(m) : m[i].pitch # m[i - 1].pitch})

\* rests take the pitch of the event before them; durations are kept
RECURSIVE SyncFrom(_, _)
SyncFrom(m, prev) ==
    IF m = <<>> THEN <<>>
    ELSE LET n == Head(m)
             p == IF Note_is_rest(n) /\ prev >= 0 THEN prev ELSE n.pitch
         IN <<Note(p, n.velocity, n.duration)>> \o SyncFrom(Tail(m), p)

Melody_synchronize_rests(m) == SyncFrom(m, -1)

Note_to_midi(n) ==
    IF Note_is_rest(n) THEN NoteOff(n.pitch, 0) ELSE NoteOn(n.pitch, n.velocity)

min_melody_pitches == 3

\* ------------------------------------------------------ the strategy table
AiTable ==
    << "Bypass", "Emphasis-Anchored Choice", "Consistent Figure Replacement",
       "Whimsical Variation" >>

\* the raw variations the three MelodyMaker strategies may produce
VarPool ==
    { << Note(60, 100, 1), Note(62, 100, 1), Note(64, 100, 1) >>,
      << Note(60, 100, 1), Note(62, 100, 0), Note(60, 100, 0), Note(62, 100, 1) >> }

AIFuncMutBypass(name, melody) == VarPool

AIFunc(name, melody) ==
    IF name = "Bypass" THEN {<<>>} ELSE VarPool

\* the ornamentation pass: no insertion opportunity in an empty melody,
\* otherwise at most one decorative note after the first note
MelodyMaker_ornamented(v) ==
    IF v = <<>> THEN {<<>>}
    ELSE {v, <<Head(v), Note(Head(v).pitch + 1, Head(v).velocity, 0)>> \o Tail(v)}

\* ------------------------------------------------------------ synth values
SynthPitches == {60, 62}

AttackTime == 1
ReleaseTime == 1
SustainLevel == 1

Adsr_new == [release_start |-> -1]
Adsr_release(adsr, t) == [adsr EXCEPT !.release_start = t]

\* Adsr::volume: <<>> is None, <<g>> is Some(g); t is the generator's own
\* time, the release runs on the wall clock from release()
Adsr_volume(adsr, t, clock) ==
    IF adsr.release_start < 0
    THEN IF t < AttackTime THEN <<0>> ELSE <<SustainLevel>>
    ELSE IF clock - adsr.release_start > ReleaseTime
         THEN <<>>
         ELSE IF clock - adsr.release_start < ReleaseTime
              THEN <<SustainLevel>>
              ELSE <<0>>

\* ------------------------------------------------------------------ state
VARIABLES
    now,            \* the wall clock
    input2ai,       \* SegQueue<MidiMsg>, device -> recorder
    ai2output,      \* SegQueue<(SynthChoice, MidiMsg)>
    ai2dbase,       \* SegQueue<FromAiMsg>
    replay_delay,   \* replay_delay_slider.load().current()
    ai_table,       \* index of the catalog's current choice
    table_lock,     \* who holds the Mutex<AITable>
    ui_ops,         \* control-surface writes so far
    ai_pc,          \* position of the AI thread
    waiting,        \* PlayerRecorder.waiting: <<>> is None, <<pn>> is Some(pn)
    player_melody,  \* PlayerRecorder.player_melody
    melody,         \* start_ai_thread's local `melody`
    var_func,       \* create_variation's local `var_func`
    variation,      \* start_ai_thread's local `variation`
    popped,         \* history: every message input2ai.pop() returned
    call_notes,     \* history: NoteOn/NoteOff consumed by this record() call
    first_event_at, \* history: clock at the first note event of this call
    boundary_at,    \* history: clock when check_if_finished returned true
    notes_in_use,   \* Mutex<HashMap<u8, Adsr>>: <<>> is absent, <<adsr>> is present
    voices,         \* the generators adsr_tri built, in note-on order
    ctl_pc,         \* control thread: "idle", or "held" while it owns the mutex
    ctl_msg,        \* the note message the control thread is applying
    removals,       \* history: present -> absent transitions per pitch
    raw_in,         \* history: every byte message the device delivered
    midi_queue,     \* replayer: SegQueue<MidiMsg>, callback -> listen_play_loop
    rp_pushed,      \* history: every message the callback pushed
    cb_state,       \* replayer: "ok", or what the callback's panic left behind
    rp_notes_in_use,\* replayer: DashSet<u8>
    rp_threads      \* replayer: the playback threads, in spawn order

vars ==
    << now, input2ai, ai2output, ai2dbase, replay_delay, ai_table, table_lock,
       ui_ops, ai_pc, waiting, player_melody, melody, var_func, variation,
       popped, call_notes, first_event_at, boundary_at, notes_in_use, voices,
       ctl_pc, ctl_msg, removals, raw_in, midi_queue, rp_pushed, cb_state,
       rp_notes_in_use, rp_threads >>

rpVars ==
    << raw_in, midi_queue, rp_pushed, cb_state, rp_notes_in_use, rp_threads >>
synthVars == << notes_in_use, voices, ctl_pc, ctl_msg, removals >>
aiVars ==
    << input2ai, ai2output, ai2dbase, replay_delay, ai_table, table_lock,
       ui_ops, ai_pc, waiting, player_melody, melody, var_func, variation,
       popped, call_notes, first_event_at, boundary_at >>

recVars == << waiting, player_melody >>
histVars == << popped, call_notes, first_event_at, boundary_at >>
aiLocals == << melody, var_func, variation >>
envVars == << now, replay_delay, ai_table, ui_ops >>

Init ==
    /\ now = 0
    /\ input2ai = <<>>
    /\ ai2output = <<>>
    /\ ai2dbase = <<>>
    /\ replay_delay \in Delays
    /\ ai_table = 1
    /\ table_lock = "free"
    /\ ui_ops = 0
    /\ ai_pc = "rec_start"
    /\ waiting = <<>>
    /\ player_melody = <<>>
    /\ melody = <<>>
    /\ var_func = "none"
    /\ variation = <<>>
    /\ popped = <<>>
    /\ call_notes = <<>>
    /\ first_event_at = -1
    /\ boundary_at = -1
    /\ notes_in_use = [p \in SynthPitches |-> <<>>]
    /\ voices = <<>>
    /\ ctl_pc = "idle"
    /\ ctl_msg = NoteOff(60, 0)
    /\ removals = [p \in SynthPitches |-> 0]
    /\ raw_in = <<>>
    /\ midi_queue = <<>>
    /\ rp_pushed = <<>>
    /\ cb_state = "ok"
    /\ rp_notes_in_use = {}
    /\ rp_threads = <<>>

\* ------------------------------------------------------------ environment
\* (the loop's locals are dropped at the end of each iteration: RecordStart)
Tick ==
    /\ now < MaxTime
    /\ now' = now + 1
    /\ UNCHANGED << input2ai, ai2output, ai2dbase, replay_delay, ai_table,
                    table_lock, ui_ops, ai_pc, recVars, aiLocals, histVars >>
    /\ UNCHANGED << synthVars, rpVars >>

\* the device callback pushes one message
DevicePush ==
    /\ Len(popped) + Len(input2ai) < MaxMsgs
    /\ \E m \in DeviceMsgs : input2ai' = Append(input2ai, m)
    /\ UNCHANGED << ai2output, ai2dbase, envVars, table_lock, ai_pc, recVars,
                    aiLocals, histVars >>
    /\ UNCHANGED << synthVars, rpVars >>

\* the control surface stores a new silence threshold
SetReplayDelay ==
    /\ ui_ops < MaxUiOps
    /\ \E d \in Delays \ {replay_delay} : replay_delay' = d
    /\ ui_ops' = ui_ops + 1
    /\ UNCHANGED << now, input2ai, ai2output, ai2dbase, ai_table, table_lock,
                    ai_pc, recVars, aiLocals, histVars >>
    /\ UNCHANGED << synthVars, rpVars >>

\* the control surface selects another strategy, under the table's mutex
SelectStrategy ==
    /\ ui_ops < MaxUiOps
    /\ table_lock = "free"
    /\ \E i \in (1..Len(AiTable)) \ {ai_table} : ai_table' = i
    /\ ui_ops' = ui_ops + 1
    /\ UNCHANGED << now, input2ai, ai2output, ai2dbase, replay_delay,
                    table_lock, ai_pc, recVars, aiLocals, histVars >>
    /\ UNCHANGED << synthVars, rpVars >>

\* --------------------------------------------------------- PlayerRecorder
HandleIncomingMelodyMutOnOnly(w, pm, msg, t) ==
    IF IsNoteMsg(msg) /\ msg.kind = "NoteOn" /\ w # <<>>
    THEN Append(pm, PendingNote_into(w[1], t))
    ELSE pm

HandleIncomingMelodyMutSamePitch(w, pm, msg, t) ==
    IF IsNoteMsg(msg) /\ w # <<>> /\ w[1].pitch = msg.note
    THEN Append(pm, PendingNote_into(w[1], t))
    ELSE pm

\* handle_incoming: the melody after the message
HandleIncomingMelody(w, pm, msg, t) ==
    IF IsNoteMsg(msg) /\ w # <<>>
    THEN Append(pm, PendingNote_into(w[1], t))
    ELSE pm

HandleIncomingWaitingMutAnyVoice(w, msg, t) ==
    IF IsChannelVoice(msg)
    THEN << PendingNote_new(msg.note, msg.velocity, t) >>
    ELSE w

\* handle_incoming: the open pending note after the message
HandleIncomingWaiting(w, msg, t) ==
    IF IsNoteMsg(msg)
    THEN << PendingNote_new(msg.note, msg.velocity, t) >>
    ELSE w

ForwardHumanMutNotesOnly(q, msg) ==
    IF IsNoteMsg(msg) THEN Append(q, <<"Human", msg>>) ELSE q

ForwardHumanMutDrop(q, msg) ==
    IF IsChannelVoice(msg) THEN Append(q, <<"Human", msg>>) ELSE q

\* handle_incoming: the push on ai2output
ForwardHuman(q, msg) == Append(q, <<"Human", msg>>)

CheckFinishedMutAnyPending(pn, t, delay) ==
    PendingNote_elapsed(pn, t) > delay

CheckFinishedMutGeq(pn, t, delay) ==
    PendingNote_is_rest(pn) /\ PendingNote_elapsed(pn, t) >= delay

\* check_if_finished: the boundary condition
CheckFinished(pn, t, delay) ==
    PendingNote_is_rest(pn) /\ PendingNote_elapsed(pn, t) > delay

RecordResetWaitingMutKeep(w) == w

\* record: self.waiting = None
RecordResetWaiting(w) == <<>>

RecordStart ==
    /\ ai_pc = "rec_start"
    /\ waiting' = RecordResetWaiting(waiting)
    /\ call_notes' = <<>>
    /\ first_event_at' = -1
    /\ boundary_at' = -1
    /\ ai_pc' = "poll"
    /\ UNCHANGED << input2ai, ai2output, ai2dbase, envVars, table_lock,
                    player_melody, aiLocals, popped >>
    /\ UNCHANGED << synthVars, rpVars >>

\* input2ai.pop() returned Some(msg): handle_incoming(msg)
RecPop ==
    /\ ai_pc = "poll"
    /\ input2ai # <<>>
    /\ LET msg == Head(input2ai) IN
        /\ input2ai' = Tail(input2ai)
        /\ player_melody' = HandleIncomingMelody(waiting, player_melody, msg, now)
        /\ waiting' = HandleIncomingWaiting(waiting, msg, now)
        /\ ai2output' = ForwardHuman(ai2output, msg)
        /\ popped' = Append(popped, msg)
        /\ call_notes' = IF IsNoteMsg(msg) THEN Append(call_notes, msg) ELSE call_notes
        /\ first_event_at' =
              IF IsNoteMsg(msg) /\ first_event_at < 0 THEN now ELSE first_event_at
    /\ ai_pc' = "check"
    /\ UNCHANGED << ai2dbase, envVars, table_lock, aiLocals, boundary_at >>
    /\ UNCHANGED << synthVars, rpVars >>

\* input2ai.pop() returned None
RecEmpty ==
    /\ ai_pc = "poll"
    /\ input2ai = <<>>
    /\ ai_pc' = "check"
    /\ UNCHANGED << input2ai, ai2output, ai2dbase, envVars, table_lock, recVars,
                    aiLocals, histVars >>
    /\ UNCHANGED << synthVars, rpVars >>

\* if let Some(pending_note) = self.waiting: check_if_finished(pending_note)
RecCheck ==
    /\ ai_pc = "check"
    /\ waiting # <<>>
    /\ IF CheckFinished(waiting[1], now, replay_delay)
       THEN /\ player_melody' = Append(player_melody, PendingNote_into(waiting[1], now))
            /\ boundary_at' = now
            /\ ai_pc' = "rec_done"
       ELSE /\ ai_pc' = "poll"
            /\ UNCHANGED << player_melody, boundary_at >>
    /\ UNCHANGED << input2ai, ai2output, ai2dbase, envVars, table_lock, waiting,
                    aiLocals, popped, call_notes, first_event_at >>
    /\ UNCHANGED << synthVars, rpVars >>

\* self.waiting is None: the loop goes round
RecNoPending ==
    /\ ai_pc = "check"
    /\ waiting = <<>>
    /\ ai_pc' = "poll"
    /\ UNCHANGED << input2ai, ai2output, ai2dbase, envVars, table_lock, recVars,
                    aiLocals, histVars >>
    /\ UNCHANGED << synthVars, rpVars >>

\* swap out player_melody, synchronize_rests, return
RecReturn ==
    /\ ai_pc = "rec_done"
    /\ melody' = Melody_synchronize_rests(player_melody)
    /\ player_melody' = <<>>
    /\ ai_pc' = "lock"
    /\ UNCHANGED << input2ai, ai2output, ai2dbase, envVars, table_lock, waiting,
                    var_func, variation, histVars >>
    /\ UNCHANGED << synthVars, rpVars >>

\* -------------------------------------------------------------- Performer
\* create_variation: self.ai_table.lock()
AILockTable ==
    /\ ai_pc = "lock"
    /\ table_lock = "free"
    /\ table_lock' = "ai"
    /\ ai_pc' = "choice"
    /\ UNCHANGED << input2ai, ai2output, ai2dbase, envVars, recVars, aiLocals,
                    histVars >>
    /\ UNCHANGED << synthVars, rpVars >>

TableGuardDroppedMutKept == "ai"

\* create_variation: the MutexGuard goes out of scope with the block
TableGuardDropped == "free"

\* create_variation: ai_table.current_choice(), guard dropped
AICurrentChoice ==
    /\ ai_pc = "choice"
    /\ var_func' = AiTable[ai_table]
    /\ table_lock' = TableGuardDropped
    /\ ai_pc' = "vary"
    /\ UNCHANGED << input2ai, ai2output, ai2dbase, envVars, recVars, melody,
                    variation, histVars >>
    /\ UNCHANGED << synthVars, rpVars >>

BorrowedMelodyMutInPlace(m, v) == v

\* create_variation(&melody): the phrase is borrowed immutably
BorrowedMelody(m, v) == m

\* create_variation: var_func(...) then maker.ornamented(...)
AIVary ==
    /\ ai_pc = "vary"
    /\ \E raw \in AIFunc(var_func, melody) :
          \E v \in MelodyMaker_ornamented(raw) :
             /\ variation' = v
             /\ melody' = BorrowedMelody(melody, v)
    /\ ai_pc' = "gate"
    /\ UNCHANGED << input2ai, ai2output, ai2dbase, envVars, table_lock, recVars,
                    var_func, histVars >>
    /\ UNCHANGED << synthVars, rpVars >>

\* ------------------------------------------------------- the AI thread loop
GateAcceptsMutOr(v, delay) ==
    Melody_num_pitch_changes(v) >= min_melody_pitches \/ Melody_duration(v) > delay

\* the acceptance gate
GateAccepts(v, delay) ==
    Melody_num_pitch_changes(v) >= min_melody_pitches /\ Melody_duration(v) > delay

FromAiMsgMutSwap(m, v) == [melody |-> v, variation |-> v]

FromAiMsg(m, v) == [melody |-> m, variation |-> v]

AIGate ==
    /\ ai_pc = "gate"
    /\ IF GateAccepts(variation, replay_delay)
       THEN /\ ai2dbase' = Append(ai2dbase, FromAiMsg(melody, variation))
                    /\ ai_pc' = "send"
       ELSE /\ ai_pc' = "rec_start"
            /\ UNCHANGED ai2dbase
    /\ UNCHANGED << input2ai, ai2output, envVars, table_lock, recVars, melody,
                    var_func, variation, popped, call_notes, first_event_at,
                    boundary_at >>
    /\ UNCHANGED << synthVars, rpVars >>

RECURSIVE SendRecordedMelody(_, _, _)
\* send_recorded_melody: one push per note of the melody, in order
SendRecordedMelody(m, synth, q) ==
    IF m = <<>> THEN q
    ELSE SendRecordedMelody(Tail(m), synth, Append(q, <<synth, Note_to_midi(Head(m))>>))

\* send_recorded_melody(&variation, SynthChoice::Ai, ai2output.clone())
AISend ==
    /\ ai_pc = "send"
    /\ ai2output' = SendRecordedMelody(variation, "Ai", ai2output)
    /\ ai_pc' = "rec_start"
    /\ UNCHANGED << input2ai, ai2dbase, envVars, table_lock, recVars, aiLocals,
                    histVars >>
    /\ UNCHANGED << synthVars, rpVars >>

Next ==
    \/ Tick
    \/ DevicePush
    \/ SetReplayDelay
    \/ SelectStrategy
    \/ RecordStart
    \/ RecPop
    \/ RecEmpty
    \/ RecCheck
    \/ RecNoPending
    \/ RecReturn
    \/ AILockTable
    \/ AICurrentChoice
    \/ AIVary
    \/ AIGate
    \/ AISend

Spec == Init /\ [][Next]_vars

\* ----------------------------------------------------- the fair scheduling
\* the loop body of start_ai_thread and everything it calls
AIThread ==
    \/ RecordStart
    \/ RecPop
    \/ RecEmpty
    \/ RecCheck
    \/ RecNoPending
    \/ RecReturn
    \/ AILockTable
    \/ AICurrentChoice
    \/ AIVary
    \/ AIGate
    \/ AISend

\* the clock goes on past MaxTime while record() waits out a pending rest
TickWaiting ==
    /\ now >= MaxTime
    /\ ai_pc \in {"poll", "check"}
    /\ waiting # <<>>
    /\ PendingNote_is_rest(waiting[1])
    /\ ~CheckFinished(waiting[1], now, replay_delay)
    /\ now' = now + 1
    /\ UNCHANGED << input2ai, ai2output, ai2dbase, replay_delay, ai_table,
                    table_lock, ui_ops, ai_pc, recVars, aiLocals, histVars >>
    /\ UNCHANGED << synthVars, rpVars >>

\* the device messages of the fair runs: a note, its rest and a message
\* that is no note
FairMsgs == { NoteOn(60, 100), NoteOff(60, 0), TimingClock }

\* the device callback pushes one message
FairPush ==
    /\ Len(popped) + Len(input2ai) < MaxMsgs
    /\ \E m \in FairMsgs : input2ai' = Append(input2ai, m)
    /\ UNCHANGED << ai2output, ai2dbase, envVars, table_lock, ai_pc, recVars,
                    aiLocals, histVars >>
    /\ UNCHANGED << synthVars, rpVars >>

\* the control surface selects the first strategy after Bypass
FairSelect ==
    /\ SelectStrategy
    /\ ai_table' = 2

FairNext ==
    \/ Tick
    \/ TickWaiting
    \/ FairPush
    \/ FairSelect
    \/ AIThread

\* the AI thread is never starved and time passes
FairSpec ==
    /\ Init
    /\ [][FairNext]_vars
    /\ WF_vars(AIThread)
    /\ WF_vars(Tick \/ TickWaiting)

\* ===================================================== the synthesis engine
\* the control thread takes the registry mutex for a note message
CtlLock ==
    /\ ctl_pc = "idle"
    /\ \E p \in SynthPitches :
          \/ /\ Len(voices) < MaxVoices
             /\ ctl_msg' = NoteOn(p, 100)
          \/ ctl_msg' = NoteOff(p, 0)
    /\ ctl_pc' = "held"
    /\ UNCHANGED << now, aiVars, rpVars, notes_in_use, voices, removals >>

\* note-on: insert a fresh envelope under the pitch and start a generator;
\* note-off: release the pitch's envelope; then the guard is dropped
CtlApply ==
    /\ ctl_pc = "held"
    /\ IF ctl_msg.kind = "NoteOn"
       THEN /\ notes_in_use' = [notes_in_use EXCEPT ![ctl_msg.note] = <<Adsr_new>>]
            /\ voices' = Append(voices,
                 [pitch |-> ctl_msg.note, start |-> now, state |-> "playing",
                  blocked |-> FALSE, gain |-> 0, quit |-> FALSE])
       ELSE /\ notes_in_use' =
                 IF notes_in_use[ctl_msg.note] = <<>> THEN notes_in_use
                 ELSE [notes_in_use EXCEPT
                         ![ctl_msg.note] = <<Adsr_release(notes_in_use[ctl_msg.note][1], now)>>]
            /\ UNCHANGED voices
    /\ ctl_pc' = "idle"
    /\ ctl_msg' = NoteOff(60, 0)
    /\ UNCHANGED << now, aiVars, rpVars, removals >>

\* adsr_tri's closure: the gain of one frame
FrameGain(reg, pitch, t, clock) ==
    IF reg[pitch] = <<>> THEN 0
    ELSE LET vol == Adsr_volume(reg[pitch][1], t, clock)
         IN IF vol = <<>> THEN 0 ELSE vol[1]

\* adsr_tri's closure: quit is set when the envelope reports completion
FrameQuit(reg, pitch, t, clock) ==
    /\ reg[pitch] # <<>>
    /\ Adsr_volume(reg[pitch][1], t, clock) = <<>>

\* the audio callback polls generator v while the control thread holds the
\* mutex: notes_in_use.lock() blocks
VoiceBlocked ==
    \E v \in DOMAIN voices :
        /\ voices[v].state = "playing"
        /\ ~voices[v].blocked
        /\ ctl_pc = "held"
        /\ voices' = [voices EXCEPT ![v].blocked = TRUE]
        /\ UNCHANGED << now, aiVars, rpVars, notes_in_use, ctl_pc, ctl_msg, removals >>

\* the audio callback polls generator v: lock, look up, remove on quit
VoiceFrame ==
    \E v \in DOMAIN voices :
        /\ voices[v].state = "playing"
        /\ ctl_pc = "idle"
        /\ LET p == voices[v].pitch
               t == now - voices[v].start
               quit == FrameQuit(notes_in_use, p, t, now)
           IN /\ voices' = [voices EXCEPT
                    ![v].gain = FrameGain(notes_in_use, p, t, now),
                    ![v].blocked = FALSE,
                    ![v].quit = voices[v].quit \/ quit]
              /\ notes_in_use' =
                    IF quit THEN [notes_in_use EXCEPT ![p] = <<>>] ELSE notes_in_use
              /\ removals' =
                    IF quit THEN [removals EXCEPT ![p] = removals[p] + 1] ELSE removals
        /\ UNCHANGED << now, aiVars, rpVars, ctl_pc, ctl_msg >>

\* the playback thread of generator v sees its pitch absent and drops the
\* stream: the generator is polled no more
VoiceDrop ==
    \E v \in DOMAIN voices :
        /\ voices[v].state = "playing"
        /\ ~voices[v].blocked
        /\ ctl_pc = "idle"
        /\ notes_in_use[voices[v].pitch] = <<>>
        /\ voices' = [voices EXCEPT ![v].state = "dropped"]
        /\ UNCHANGED << now, aiVars, rpVars, notes_in_use, ctl_pc, ctl_msg, removals >>

SynthNext ==
    \/ Tick
    \/ CtlLock
    \/ CtlApply
    \/ VoiceBlocked
    \/ VoiceFrame
    \/ VoiceDrop

SynthSpec == Init /\ [][SynthNext]_vars

\* ============================================================ the replayer
\* the byte messages the device delivers: note-on, note-off and control
\* change on channel 0, and a note-on cut short after its second byte
RawMsgs == { <<144, 60, 100>>, <<128, 60, 0>>, <<176, 7, 100>>, <<144, 60>> }

\* MidiMsg::from_midi: <<>> is Err, <<msg>> is Ok((msg, len))
MidiMsg_from_midi(b) ==
    IF Len(b) < 3 THEN <<>>
    ELSE IF b[1] = 144 THEN << NoteOn(b[2], b[3]) >>
    ELSE IF b[1] = 128 THEN << NoteOff(b[2], b[3]) >>
    ELSE IF b[1] = 176 THEN << ControlChange >>
    ELSE <<>>

\* what a panic inside the midir callback leaves: the backend's handler
\* thread is unwound and delivers nothing more, or the unwind reaches a
\* foreign frame and the process aborts
PanicOutcomes == {"handler_dead", "aborted"}

\* start_input's closure: from_midi(&message).unwrap(), midi_queue.push(msg)
InputCallback ==
    /\ cb_state = "ok"
    /\ Len(raw_in) < MaxRaw
    /\ \E b \in RawMsgs :
          /\ raw_in' = Append(raw_in, b)
          /\ IF MidiMsg_from_midi(b) # <<>>
             THEN /\ midi_queue' = Append(midi_queue, MidiMsg_from_midi(b)[1])
                  /\ rp_pushed' = Append(rp_pushed, MidiMsg_from_midi(b)[1])
                  /\ cb_state' = cb_state
             ELSE /\ cb_state' \in PanicOutcomes
                  /\ UNCHANGED << midi_queue, rp_pushed >>
    /\ UNCHANGED << now, aiVars, synthVars, rp_notes_in_use, rp_threads >>

\* the device sends on after the handler thread died: nobody calls the closure
InputLost ==
    /\ cb_state = "handler_dead"
    /\ Len(raw_in) < MaxRaw
    /\ \E b \in RawMsgs : raw_in' = Append(raw_in, b)
    /\ UNCHANGED << now, aiVars, synthVars, midi_queue, rp_pushed, cb_state,
                    rp_notes_in_use, rp_threads >>

\* a playback thread as play_sound spawns it
PlaybackThread(note) ==
    [note |-> note, pc |-> "build", offs |-> 0, tested |-> FALSE]

\* listen_play_loop after a NoteOff: notes_in_use.remove(&note)
ListenNoteOff(set, note) == set \ {note}

\* listen_play_loop after a NoteOn: notes_in_use.insert(note)
ListenNoteOn(set, note) == set \cup {note}

\* listen_play_loop: one message popped from incoming and matched
ListenPop ==
    /\ cb_state # "aborted"
    /\ midi_queue # <<>>
    /\ midi_queue' = Tail(midi_queue)
    /\ LET m == Head(midi_queue) IN
         IF IsChannelVoice(m) /\ m.kind = "NoteOff"
         THEN /\ rp_notes_in_use' = ListenNoteOff(rp_notes_in_use, m.note)
              /\ rp_threads' =
                    [i \in 1..Len(rp_threads) |->
                        IF rp_threads[i].note = m.note /\ rp_threads[i].pc # "done"
                        THEN [rp_threads[i] EXCEPT !.offs = @ + 1]
                        ELSE rp_threads[i]]
         ELSE IF IsChannelVoice(m) /\ m.kind = "NoteOn"
         THEN /\ rp_notes_in_use' = ListenNoteOn(rp_notes_in_use, m.note)
              /\ rp_threads' = Append(rp_threads, PlaybackThread(m.note))
         ELSE UNCHANGED << rp_notes_in_use, rp_threads >>
    /\ UNCHANGED << now, aiVars, synthVars, raw_in, rp_pushed, cb_state >>

\* play_sound's thread: build_output_stream, stream.play()
PlayStart ==
    \E i \in 1..Len(rp_threads) :
        /\ cb_state # "aborted"
        /\ rp_threads[i].pc = "build"
        /\ rp_threads' = [rp_threads EXCEPT ![i].pc = "loop"]
        /\ UNCHANGED << now, aiVars, synthVars, raw_in, midi_queue, rp_pushed,
                        cb_state, rp_notes_in_use >>

\* play_sound's thread: one test of `while notes_in_use.contains(&note) {}`;
\* when it fails the closure ends and the stream is dropped
PlayTest ==
    \E i \in 1..Len(rp_threads) :
        /\ cb_state # "aborted"
        /\ rp_threads[i].pc = "loop"
        /\ rp_threads' =
              [rp_threads EXCEPT
                 ![i].pc = IF rp_threads[i].note \in rp_notes_in_use
                           THEN "loop" ELSE "done",
                 ![i].tested = rp_threads[i].offs > 0]
        /\ UNCHANGED << now, aiVars, synthVars, raw_in, midi_queue, rp_pushed,
                        cb_state, rp_notes_in_use >>

ReplayerNext ==
    \/ InputCallback
    \/ InputLost
    \/ ListenPop
    \/ PlayStart
    \/ PlayTest

ReplayerSpec == Init /\ [][ReplayerNext]_vars

\* ================================================================= claims
RECURSIVE TaggedOf(_, _)
TaggedOf(q, tag) ==
    IF q = <<>> THEN <<>>
    ELSE IF Head(q)[1] = tag
         THEN <<Head(q)[2]>> \o TaggedOf(Tail(q), tag)
         ELSE TaggedOf(Tail(q), tag)

RECURSIVE MidiOf(_)
MidiOf(m) ==
    IF m = <<>> THEN <<>> ELSE <<Note_to_midi(Head(m))>> \o MidiOf(Tail(m))

\* C1: the Human-tagged messages on ai2output are exactly the messages the
\* recorder popped from input2ai, each once, unchanged and in pop order.
C1_HumanForwarded == TaggedOf(ai2output, "Human") = popped

\* a non-note message was forwarded after an AI variation had been played
C1_Witness ==
    \E i, j \in DOMAIN ai2output :
        /\ i < j
        /\ ai2output[i][1] = "Ai"
        /\ ai2output[j][1] = "Human"
        /\ ~IsChannelVoice(ai2output[j][2])

\* C2: check_if_finished appends the trailing rest and ends the phrase iff
\* the sampled pending note is a rest whose elapsed time is strictly greater
\* than the threshold loaded at that moment; otherwise nothing is appended and
\* recording continues; and the phrase ends nowhere else.
C2_TrailingRestIff ==
    [][ /\ (ai_pc = "check" /\ ai_pc' # "check") =>
            IF /\ waiting # <<>>
               /\ PendingNote_is_rest(waiting[1])
               /\ now - waiting[1].timestamp > replay_delay
            THEN /\ ai_pc' = "rec_done"
                 /\ player_melody' =
                      Append(player_melody,
                             Note(waiting[1].pitch, waiting[1].velocity,
                                  now - waiting[1].timestamp))
            ELSE /\ ai_pc' = "poll"
                 /\ player_melody' = player_melody
        /\ (ai_pc' = "rec_done" /\ ai_pc # "rec_done") => ai_pc = "check"
      ]_vars

\* a phrase ended on a rest that had lasted one tick more than the threshold
C2_Witness ==
    /\ ai_pc = "rec_done"
    /\ player_melody # <<>>
    /\ player_melody[Len(player_melody)].velocity = 0
    /\ player_melody[Len(player_melody)].duration = replay_delay + 1

C4_NoteThenRest ==
    [][ ( /\ ai_pc = "check" /\ ai_pc' # "check"
          /\ call_notes = << NoteOn(60, 100), NoteOff(60, 100) >>
          /\ input2ai = <<>>
          /\ waiting # <<>>
          /\ now - waiting[1].timestamp > replay_delay )
        => ( /\ ai_pc' = "rec_done"
             /\ Len(player_melody') = 2
             /\ player_melody'[1].pitch = 60
             /\ player_melody'[1].velocity = 100
             /\ player_melody'[2].velocity = 0
             /\ player_melody'[2].duration > replay_delay )
      ]_vars

\* C5: the gate forwards the variation (pair on ai2dbase, playback started)
\* iff it has at least min_melody_pitches pitch changes and a duration
\* strictly above the threshold loaded at gate time; a rejected variation
\* pushes nothing, and AI-tagged messages are pushed only by the playback
\* of an accepted variation.
C5_GateIff ==
    [][ /\ (ai_pc = "gate" /\ ai_pc' # "gate") =>
            IF /\ Melody_num_pitch_changes(variation) >= min_melody_pitches
               /\ Melody_duration(variation) > replay_delay
            THEN /\ ai2dbase' = Append(ai2dbase, [melody |-> melody, variation |-> variation])
                 /\ ai_pc' = "send"
            ELSE /\ ai2dbase' = ai2dbase
                 /\ ai2output' = ai2output
                 /\ ai_pc' = "rec_start"
        /\ (ai_pc' = "send" /\ ai_pc # "send") => ai_pc = "gate"
        /\ (TaggedOf(ai2output', "Ai") # TaggedOf(ai2output, "Ai")) => ai_pc = "send"
        /\ (ai2dbase' # ai2dbase) => ai_pc = "gate"
      ]_vars

\* a variation with 2 pitch changes and a duration above the threshold was
\* rejected: nothing persisted, nothing played
C5_Witness ==
    /\ ai_pc = "rec_start"
    /\ variation # <<>>
    /\ Melody_num_pitch_changes(variation) = 2
    /\ Melody_duration(variation) > replay_delay
    /\ ai2dbase = <<>>
    /\ TaggedOf(ai2output, "Ai") = <<>>

\* what playback has pushed for the k-th persisted pair
PlayedOf(k) ==
    IF k = Len(ai2dbase) /\ ai_pc = "send"
    THEN <<>>
    ELSE MidiOf(ai2dbase[k].variation)

RECURSIVE PlayedUpTo(_)
PlayedUpTo(k) == IF k = 0 THEN <<>> ELSE PlayedUpTo(k - 1) \o PlayedOf(k)

\* C6: each accepted variation puts exactly one pair on ai2dbase, made of
\* the melody record() returned in this iteration and the variation that is
\* played; the AI-tagged stream is exactly the playback of the persisted
\* variations, in order, the last one possibly not yet started.
C6_PairPerVariation ==
    /\ [](TaggedOf(ai2output, "Ai") = PlayedUpTo(Len(ai2dbase)))
    /\ [][ (ai2dbase' # ai2dbase) =>
             /\ ai2dbase' = Append(ai2dbase, [melody |-> melody, variation |-> variation])
             /\ variation' = variation
                      /\ ai_pc' = "send"
         ]_vars

\* one pair persisted and its variation played to the end
C6_Witness ==
    /\ Len(ai2dbase) = 1
    /\ ai_pc = "rec_start"
    /\ ai2dbase[1].melody # <<>>
    /\ TaggedOf(ai2output, "Ai") = MidiOf(ai2dbase[1].variation)
    /\ Len(TaggedOf(ai2output, "Ai")) >= 4

\* C7: with Bypass read as the current choice, create_variation returns the
\* empty melody whatever the recorded melody is, and the iteration pushes
\* nothing on ai2dbase and nothing on ai2output.
C7_BypassSilent ==
    [][ /\ (ai_pc = "choice" /\ ai_pc' # "choice" /\ AiTable[ai_table] = "Bypass")
            => var_func' = "Bypass"
        /\ (ai_pc = "vary" /\ ai_pc' # "vary" /\ var_func = "Bypass")
            => variation' = <<>>
        /\ (ai_pc = "gate" /\ ai_pc' # "gate" /\ var_func = "Bypass")
            => /\ ai2dbase' = ai2dbase
               /\ ai2output' = ai2output
               /\ ai_pc' = "rec_start"
      ]_vars

\* a two-event phrase went through the loop under Bypass
C7_Witness ==
    /\ ai_pc = "rec_start"
    /\ var_func = "Bypass"
    /\ Len(melody) = 2
    /\ variation = <<>>
    /\ ai2dbase = <<>>

NoteOnsFor(p) == Cardinality({v \in DOMAIN voices : voices[v].pitch = p})

\* C8: every note lifecycle takes its registry entry from present to absent
\* exactly once: whenever a pitch is absent from the registry, it has been
\* removed as many times as there were note-ons for it.
C8_RemovedOncePerLifecycle ==
    \A p \in SynthPitches :
        /\ removals[p] <= NoteOnsFor(p)
        /\ notes_in_use[p] = <<>> => removals[p] = NoteOnsFor(p)

\* C9: a generator that has seen its envelope complete and removed its
\* pitch outputs gain 0 on every later frame.
C9_SilentAfterQuit ==
    \A v \in DOMAIN voices : voices[v].quit => voices[v].gain = 0

\* C10: the audio path never waits for the registry lock while the control
\* thread holds it.
C10_AudioNeverWaits ==
    ~ \E v \in DOMAIN voices : voices[v].blocked /\ ctl_pc = "held"

\* C11: the variation thread holds the catalog mutex only while it reads the
\* current choice, never while the transformation or the ornamentation pass
\* runs, so the control surface can select during a variation.
C11_LockOnlyWhileReading ==
    /\ table_lock = "ai" <=> ai_pc = "choice"
    /\ table_lock \in {"free", "ai"}

\* the control surface changed the selection while the variation was running
C11_Witness ==
    /\ ai_pc = "vary"
    /\ table_lock = "free"
    /\ var_func = "Bypass"
    /\ AiTable[ai_table] # "Bypass"

\* C12: a popped message that is not a NoteOn or NoteOff leaves waiting and
\* the melody under construction unchanged, and the recorder goes on to its
\* usual check.
C12_OtherMessagesIgnored ==
    [][ (popped' # popped /\ ~(Head(input2ai).kind \in {"NoteOn", "NoteOff"}))
        => /\ waiting' = waiting
           /\ player_melody' = player_melody
           /\ ai_pc' = "check"
      ]_vars

\* a control change was popped while a pending note was open
C12_Witness ==
    /\ ai_pc = "check"
    /\ popped # <<>>
    /\ popped[Len(popped)] = ControlChange
    /\ waiting # <<>>

\* C15: a record() call starts with an empty melody and no pending note:
\* until its first note event nothing is pending and nothing is built, and
\* the first note event appends nothing.
C15_NoCarryOver ==
    /\ []((ai_pc \in {"poll", "check"} /\ call_notes = <<>>)
            => (waiting = <<>> /\ player_melody = <<>>))
    /\ [][(popped' # popped /\ call_notes = <<>>) => player_melody' = <<>>]_vars

\* a second record() call took its first note event after a phrase had ended
C15_Witness ==
    /\ ai_pc = "check"
    /\ Len(popped) = 2
    /\ Len(call_notes) = 1
    /\ waiting # <<>>
    /\ waiting[1].pitch = call_notes[1].note
    /\ player_melody = <<>>
    /\ boundary_at = -1

\* C16: a NoteOn or NoteOff consumed while a pending note is open appends
\* exactly the finalized pending note and opens a pending note with the
\* incoming pitch and velocity; a finished call has built as many events as
\* it consumed note events.
C16_OneEventPerNoteMsg ==
    /\ [][ (popped' # popped /\ Head(input2ai).kind \in {"NoteOn", "NoteOff"})
           => /\ waiting' = << [pitch |-> Head(input2ai).note,
                                velocity |-> Head(input2ai).velocity,
                                timestamp |-> now] >>
              /\ player_melody' =
                    IF waiting = <<>> THEN player_melody
                    ELSE Append(player_melody,
                                Note(waiting[1].pitch, waiting[1].velocity,
                                     now - waiting[1].timestamp))
         ]_vars
    /\ [](ai_pc = "rec_done" => Len(player_melody) = Len(call_notes))
    /\ []((ai_pc \in {"poll", "check"} /\ call_notes # <<>>)
            => Len(player_melody) = Len(call_notes) - 1)

\* a note-on for another pitch closed the pending note
C16_Witness ==
    /\ call_notes = << NoteOn(60, 100), NoteOn(62, 100) >>
    /\ Len(player_melody) = 1
    /\ player_melody[1].pitch = 60
    /\ waiting # <<>>
    /\ waiting[1].pitch = 62

\* C19: the melody record() returned is not changed by create_variation or
\* by the gate, and the persisted pair carries it as its original.
C19_MelodyNotMutated ==
    [][ /\ (melody' # melody) => ai_pc \in {"rec_done", "rec_start"}
        /\ (ai2dbase' # ai2dbase) =>
              /\ Len(ai2dbase') = Len(ai2dbase) + 1
              /\ ai2dbase'[Len(ai2dbase')].melody = melody
              /\ melody' = melody
      ]_vars

\* a recorded phrase was persisted next to a different variation
C19_Witness ==
    /\ Len(ai2dbase) = 1
    /\ ai_pc = "send"
    /\ ai2dbase[1].melody = melody
    /\ melody # <<>>
    /\ ai2dbase[1].variation # melody

\* no further note event can reach this record() call
NoMoreNotes ==
    /\ Len(popped) + Len(input2ai) = MaxMsgs
    /\ \A i \in 1..Len(input2ai) : ~IsNoteMsg(input2ai[i])

\* C14: record() returns only at a phrase boundary: it has consumed at least
\* one note event and the last event of the melody it built is the trailing
\* rest; and once the pending note is a rest and no further note event
\* arrives, record() returns.
C14_ReturnsAtBoundary ==
    /\ [](ai_pc = "rec_done"
            => /\ call_notes # <<>>
               /\ player_melody # <<>>
               /\ Note_is_rest(player_melody[Len(player_melody)]))
    /\ (ai_pc \in {"poll", "check"} /\ waiting # <<>>
          /\ PendingNote_is_rest(waiting[1]) /\ NoMoreNotes)
         ~> (ai_pc = "rec_done")

\* record() returned after a rest that began when the clock was at its bound
C14_Witness ==
    /\ ai_pc = "rec_done"
    /\ NoMoreNotes
    /\ now > MaxTime
    /\ Note_is_rest(player_melody[Len(player_melody)])

\* C17: the recorder pops at the head of input2ai, and every message pushed
\* onto input2ai is eventually forwarded to ai2output tagged Human, whatever
\* the AI thread is doing when it arrives.
C17_NothingLost ==
    /\ [][popped' # popped
            => /\ input2ai # <<>>
               /\ popped' = Append(popped, Head(input2ai))
               /\ input2ai' = Tail(input2ai)]_vars
    /\ \A n \in 1..(MaxMsgs + 1) :
          (Len(popped) + Len(input2ai) >= n)
             ~> (Len(TaggedOf(ai2output, "Human")) >= n)

\* a message that arrived while the variation was being sent has been forwarded
C17_Witness ==
    /\ Len(ai2dbase) = 1
    /\ Len(popped) > Len(ai2dbase[1].melody)
    /\ Len(TaggedOf(ai2output, "Human")) = Len(popped)
    /\ input2ai = <<>>

RECURSIVE WellFormedOf(_)
\* the messages of a delivery history that parse, in order
WellFormedOf(h) ==
    IF h = <<>> THEN <<>>
    ELSE MidiMsg_from_midi(Head(h)) \o WellFormedOf(Tail(h))

\* C13: an unparsable device message is dropped silently by the replayer's
\* callback: no error state is entered, nothing is pushed for it, and every
\* well-formed message delivered, before or after it, has been pushed.
C13_UnparsableDropped ==
    /\ cb_state = "ok"
    /\ rp_pushed = WellFormedOf(raw_in)

\* C18: a playback thread that tests the set after a NoteOff for its pitch
\* has been processed terminates, and a voice that has made such a test does
\* not sound together with a voice started after that NoteOff.
C18_VoiceEndsAfterNoteOff ==
    /\ \A i \in 1..Len(rp_threads) :
          (rp_threads[i].offs > 0 /\ rp_threads[i].tested)
             => rp_threads[i].pc = "done"
    /\ \A i, j \in 1..Len(rp_threads) :
          (/\ i < j
           /\ rp_threads[i].note = rp_threads[j].note
           /\ rp_threads[i].offs > rp_threads[j].offs
           /\ rp_threads[i].tested)
             => ~(rp_threads[i].pc = "loop" /\ rp_threads[j].pc = "loop")

====
